---------------------------- MODULE Spec2Model ----------------------------
(***************************************************************************)
(* A model of the CASDA data-staging client, astroquery/casda/core.py:     *)
(* CasdaClass.stage_data and the helpers it calls                          *)
(* (_parse_datalink_for_service_and_id, _create_soda_job, _run_job,        *)
(* _get_job_details_xml, _read_job_status) together with the archive as    *)
(* the client sees it through BaseQuery._request.                          *)
(*                                                                         *)
(* Text is modelled in two ways.  Opaque values that the client only       *)
(* copies (tokens, endpoints, phases) are TLA+ strings.  Values the client *)
(* transforms (the xlink:href of a result, which is percent-decoded) are   *)
(* sequences of Unicode code points, so that the decoding is computed.     *)
(***************************************************************************)
EXTENDS Integers, Sequences, FiniteSets, TLC

(***************************************************************************)
(* Bounds of the model.                                                    *)
(***************************************************************************)
MaxRows == 2        \* rows of the input table
MaxPolls == 2       \* non-terminal phases the archive reports for one job
MaxResults == 2     \* uws:result elements of a sampled job detail document
MaxResources == 3   \* RESOURCE elements of an enumerated datalink document
MaxEntries == 2     \* rows of the table of an enumerated results resource
MaxHrefLen == 4     \* characters of an enumerated xlink:href

(***************************************************************************)
(* Python values.                                                          *)
(***************************************************************************)
None == "None"              \* Python's None where a string may stand
Unbound == "<unbound>"      \* a local variable that was never assigned
NoHref == <<-1>>            \* result.get(href) of an element without it

\* The sequences over S of length at most n.
SeqsUpTo(S, n) == UNION {[1..k -> S] : k \in 0..n}

\* The service name stage_data asks for, and another one a document may name.
service_name == "cutout_service"
other_service == "async_service"

\* poll_interval's default, the only value stage_data uses.
poll_interval == 20

\* The default of _get_soda_url(): conf.soda_base_url + "data/async".
DefaultSodaUrl == "soda_base_url/data/async"

(***************************************************************************)
(* Datalink documents: the VOTable astropy's parse() returns, as the       *)
(* sequence votable.resources.  A resource has a type ("results" or        *)
(* "meta", the two the VOTable schema allows), an ID, its PARAMs and, for  *)
(* a results resource, the rows of its table (tables[0].array).            *)
(***************************************************************************)
Param(n, v) == [name |-> n, value |-> v]
Row(s, t) == [service_def |-> s, authenticated_id_token |-> t]
MetaRes(id, ps) == [type |-> "meta", ID |-> id, params |-> ps, rows |-> <<>>]
ResultsRes(rs) == [type |-> "results", ID |-> None, params |-> <<>>, rows |-> rs]

\* next(resource for resource in votable.resources if resource.type == "results"):
\* the first results resource; next() raises StopIteration when there is none.
HasResultsResource(doc) == \E i \in 1..Len(doc) : doc[i].type = "results"

FirstResultsResource(doc) ==
    doc[CHOOSE i \in 1..Len(doc) :
            /\ doc[i].type = "results"
            /\ \A j \in 1..(i-1) : doc[j].type # "results"]

\* for x in results_array: if x['service_def'] == service_name: token = x[...]
\* (every matching row overwrites the token: the last one stays).
RECURSIVE ScanRows(_, _, _)
ScanRows(rows, name, acc) ==
    IF rows = <<>> THEN acc
    ELSE ScanRows(Tail(rows), name,
                  IF Head(rows).service_def = name
                  THEN Head(rows).authenticated_id_token ELSE acc)

\* for p in x.params: if p.name == "accessURL": async_url = p.value
RECURSIVE ScanParams(_, _)
ScanParams(params, acc) ==
    IF params = <<>> THEN acc
    ELSE ScanParams(Tail(params),
                    IF Head(params).name = "accessURL"
                    THEN Head(params).value ELSE acc)

\* for x in votable.resources: if x.type == "meta": if x.ID == service_name: ...
RECURSIVE ScanResources(_, _, _)
ScanResources(resources, name, acc) ==
    IF resources = <<>> THEN acc
    ELSE ScanResources(Tail(resources), name,
                       IF Head(resources).type = "meta" /\ Head(resources).ID = name
                       THEN ScanParams(Head(resources).params, acc) ELSE acc)

\* A variant that returns a pair of absent values for a document without a
\* results resource, instead of raising.
ParseDatalinkAbsentPair(doc, name) ==
    IF ~HasResultsResource(doc)
    THEN [raised |-> None, async_url |-> None, id_token |-> None]
    ELSE [raised |-> None,
          async_url |-> ScanResources(doc, name, None),
          id_token |-> ScanRows(FirstResultsResource(doc).rows, name, None)]

\* A variant whose meta scan does not compare the resource's ID.
ParseDatalinkAnyMeta(doc, name) ==
    IF ~HasResultsResource(doc)
    THEN [raised |-> "StopIteration", async_url |-> None, id_token |-> None]
    ELSE [raised |-> None,
          async_url |-> ScanResources(
              [i \in 1..Len(doc) |-> [doc[i] EXCEPT !.ID = name]], name, None),
          id_token |-> ScanRows(FirstResultsResource(doc).rows, name, None)]

\* A variant that returns the pair only when both values were found.
ParseDatalinkBothOrNeither(doc, name) ==
    IF ~HasResultsResource(doc)
    THEN [raised |-> "StopIteration", async_url |-> None, id_token |-> None]
    ELSE LET url == ScanResources(doc, name, None)
             token == ScanRows(FirstResultsResource(doc).rows, name, None)
         IN  IF url = None \/ token = None
             THEN [raised |-> None, async_url |-> None, id_token |-> None]
             ELSE [raised |-> None, async_url |-> url, id_token |-> token]

\* _parse_datalink_for_service_and_id(response, service_name): what the call
\* raises (None: it returns) and the pair it returns.
ParseDatalink(doc, name) ==
    IF ~HasResultsResource(doc)
    THEN [raised |-> "StopIteration", async_url |-> None, id_token |-> None]
    ELSE [raised |-> None,
          async_url |-> ScanResources(doc, name, None),
          id_token |-> ScanRows(FirstResultsResource(doc).rows, name, None)]

(***************************************************************************)
(* urllib.parse.unquote (imported at line 5, applied at line 186), on      *)
(* strings given as sequences of code points.  Python splits the string    *)
(* into ASCII and non-ASCII runs, percent-decodes each ASCII run to bytes  *)
(* (unquote_to_bytes) and decodes the bytes as UTF-8 with errors="replace".*)
(***************************************************************************)
IsHexDigit(c) == c \in (48..57) \cup (65..70) \cup (97..102)

HexValue(c) == IF c \in 48..57 THEN c - 48
               ELSE IF c \in 65..70 THEN c - 55 ELSE c - 87

\* string.split('%'): the pieces between the percent signs (code point 37).
RECURSIVE SplitPercent(_)
SplitPercent(s) ==
    IF \A i \in 1..Len(s) : s[i] # 37 THEN <<s>>
    ELSE LET i == CHOOSE k \in 1..Len(s) :
                      s[k] = 37 /\ \A j \in 1..(k-1) : s[j] # 37
         IN  <<SubSeq(s, 1, i-1)>> \o SplitPercent(SubSeq(s, i+1, Len(s)))

\* One piece after a percent sign: _hextobyte[item[:2]] + item[2:], or on
\* KeyError the percent sign put back and the piece unchanged.
UnquoteItem(item) ==
    IF Len(item) >= 2 /\ IsHexDigit(item[1]) /\ IsHexDigit(item[2])
    THEN <<16 * HexValue(item[1]) + HexValue(item[2])>> \o SubSeq(item, 3, Len(item))
    ELSE <<37>> \o item

RECURSIVE ConcatItems(_)
ConcatItems(items) ==
    IF items = <<>> THEN <<>>
    ELSE UnquoteItem(Head(items)) \o ConcatItems(Tail(items))

unquote_to_bytes(s) ==
    LET bits == SplitPercent(s)
    IN  IF Len(bits) = 1 THEN s ELSE Head(bits) \o ConcatItems(Tail(bits))

\* bytes.decode('utf-8', 'replace').  A lead byte announces 2, 3 or 4 bytes;
\* the second byte's range depends on the lead (no overlong forms, no
\* surrogates, nothing above U+10FFFF); an ill-formed sequence is replaced,
\* as a whole, by one U+FFFD (65533) up to the first byte that cannot follow.
Utf8Need(b) == IF b \in 194..223 THEN 2
               ELSE IF b \in 224..239 THEN 3
               ELSE IF b \in 240..244 THEN 4 ELSE 0

Utf8SecondRange(b) == IF b = 224 THEN 160..191
                      ELSE IF b = 237 THEN 128..159
                      ELSE IF b = 240 THEN 144..191
                      ELSE IF b = 244 THEN 128..143 ELSE 128..191

\* How many of the bytes after the lead bs[1] continue its sequence.
Utf8Follow(bs) ==
    LET n == Utf8Need(bs[1])
        ok(k) == /\ k <= Len(bs)
                 /\ bs[k] \in (IF k = 2 THEN Utf8SecondRange(bs[1]) ELSE 128..191)
        good == {m \in 0..(n-1) : \A k \in 2..(m+1) : ok(k)}
    IN  CHOOSE m \in good : \A m2 \in good : m2 <= m

Utf8CodePoint(bs, n) ==
    IF n = 2 THEN (bs[1] - 192) * 64 + (bs[2] - 128)
    ELSE IF n = 3 THEN (bs[1] - 224) * 4096 + (bs[2] - 128) * 64 + (bs[3] - 128)
    ELSE (bs[1] - 240) * 262144 + (bs[2] - 128) * 4096
         + (bs[3] - 128) * 64 + (bs[4] - 128)

RECURSIVE Utf8Decode(_)
Utf8Decode(bs) ==
    IF bs = <<>> THEN <<>>
    ELSE IF bs[1] < 128 THEN <<bs[1]>> \o Utf8Decode(Tail(bs))
    ELSE IF Utf8Need(bs[1]) = 0 THEN <<65533>> \o Utf8Decode(Tail(bs))
    ELSE LET n == Utf8Need(bs[1])
             m == Utf8Follow(bs)
         IN  IF m = n - 1
             THEN <<Utf8CodePoint(bs, n)>> \o Utf8Decode(SubSeq(bs, n+1, Len(bs)))
             ELSE <<65533>> \o Utf8Decode(SubSeq(bs, m+2, Len(bs)))

\* _asciire.split(string): the length of the leading run of s whose
\* characters are all ASCII (or all not).
RunLength(s) ==
    LET same(k) == \A j \in 1..k : (s[j] < 128) = (s[1] < 128)
    IN  CHOOSE k \in 1..Len(s) : same(k) /\ (k = Len(s) \/ ~same(k+1))

RECURSIVE UnquoteRuns(_)
UnquoteRuns(s) ==
    IF s = <<>> THEN <<>>
    ELSE LET k == RunLength(s)
             run == SubSeq(s, 1, k)
         IN  (IF s[1] < 128 THEN Utf8Decode(unquote_to_bytes(run)) ELSE run)
             \o UnquoteRuns(SubSeq(s, k+1, Len(s)))

unquote(s) == IF \A i \in 1..Len(s) : s[i] # 37 THEN s ELSE UnquoteRuns(s)

(***************************************************************************)
(* The archive's answers the model draws from.                             *)
(***************************************************************************)
\* A row of the input table: its access_url, and the datalink document the
\* archive serves for that URL.
TableRow(u, d) == [access_url |-> u, doc |-> d]

\* A datalink document naming the cutout service's endpoint and token.
LinkDoc(token, endpoint) ==
    << ResultsRes(<< Row(other_service, "T0"), Row(service_name, token) >>),
       MetaRes(other_service, << Param("accessURL", "E0") >>),
       MetaRes(service_name, << Param("accessURL", endpoint) >>) >>

\* The rows the staging runs are drawn from: three files that resolve (two to
\* the same endpoint), one without a row for the service, one without a
\* descriptor for the service, one without a results resource.
SampleRows ==
    { TableRow("A1", LinkDoc("T1", "E1")),
      TableRow("A2", LinkDoc("T2", "E1")),
      TableRow("A3", LinkDoc("T3", "E2")),
      TableRow("A4", << ResultsRes(<< Row(other_service, "T0") >>),
                        MetaRes(service_name, << Param("accessURL", "E1") >>) >>),
      TableRow("A5", << ResultsRes(<< Row(service_name, "T5") >>),
                        MetaRes(other_service, << Param("accessURL", "E0") >>) >>),
      TableRow("A6", << MetaRes(service_name, << Param("accessURL", "E1") >>) >>) }

\* The enumerated datalink documents: every sequence of at most MaxResources
\* resources with at most one results resource (a datalink response carries
\* one table of links), whose table has at most MaxEntries rows; a
\* descriptor's PARAMs are one of four lists.
ParamLists(url, id) ==
    { <<>>,
      << Param("accessURL", url) >>,
      << Param("standardID", id) >>,
      << Param("standardID", id), Param("accessURL", url) >> }

MetaResources ==
    { MetaRes(service_name, ps) : ps \in ParamLists("E1", "S1") }
    \cup
    { MetaRes(other_service, ps) : ps \in ParamLists("E2", "S2") }

ResultsResources ==
    { ResultsRes(rs) :
        rs \in SeqsUpTo({Row(service_name, "T1"), Row(other_service, "T2")}, MaxEntries) }

\* The descriptors ms with the results resource r after the first k of them.
InsertAt(ms, k, r) == SubSeq(ms, 1, k) \o <<r>> \o SubSeq(ms, k + 1, Len(ms))

DatalinkDocs ==
    SeqsUpTo(MetaResources, MaxResources)
    \cup
    UNION { { InsertAt(ms, k, r) : k \in 0..Len(ms), r \in ResultsResources } :
            ms \in SeqsUpTo(MetaResources, MaxResources - 1) }

\* The phases a job detail document may carry in uws:phase: the UWS phases,
\* a value UWS does not define, and an empty element (its .text is None).
Phases == {"PENDING", "QUEUED", "EXECUTING", "COMPLETED", "ERROR", "ABORTED",
           "HELD", "SUSPENDED", "UNKNOWN", "ARCHIVED", None}
NoPhase == "<no uws:phase>"     \* a document without the element

\* The job detail document as stage_data reads it after the job has ended:
\* whether uws:results is there, and the xlink:href of each uws:result.
JobDoc(hrefs) == [has_results |-> TRUE, results |-> hrefs]
NoResultsDoc == [has_results |-> FALSE, results |-> <<>>]

\* "a%20b", "c", "d%2Fe"
HrefA == <<97, 37, 50, 48, 98>>
HrefC == <<99>>
HrefD == <<100, 37, 50, 70, 101>>

SampleJobDocs ==
    {NoResultsDoc} \cup {JobDoc(h) : h \in SeqsUpTo({HrefA, HrefC, NoHref}, MaxResults)}

\* The characters of the enumerated hrefs: "%", "2", "0", "F", "d".
HrefChars == {37, 50, 48, 70, 100}

ExtractJobDocs ==
    {NoResultsDoc, JobDoc(<<HrefA, HrefC, HrefD>>)}
    \cup {JobDoc(h) : h \in SeqsUpTo({HrefA, HrefD}, MaxResults)}
    \cup {JobDoc(<<h>>) : h \in SeqsUpTo(HrefChars, MaxHrefLen)}

\* The location the archive gives a created job (resp.url).
JobUrls == {"JOB1", "JOB2"}

(***************************************************************************)
(* The state: the client object, the call's input, stage_data's and        *)
(* _run_job's locals, and what the outside has seen.                       *)
(***************************************************************************)
VARIABLES
    authenticated,      \* self._authenticated
    table,              \* stage_data's argument
    pc,                 \* where the call stands
    row,                \* index of the table row the loop is at
    tokens,             \* tokens
    soda_url,           \* soda_url (unbound until the first row is resolved)
    job_url,            \* job_url
    status,             \* _run_job's status
    prev_status,        \* _run_job's prev_status
    count,              \* _run_job's count
    final_status,       \* final_status, _run_job's return value
    job_details,        \* job_details of line 183: <<>> until assigned, then <<document>>
    fileurls,           \* the returned list
    error,              \* the exception the call ended with
    requests,           \* every _request call made, in order
    sleeps,             \* every time.sleep call made, in order
    served,             \* the phases of the documents the archive served to the polls, in order
    archive_jobs,       \* the archive's jobs: the location and the parameters of each creation
    call,               \* which call of stage_data is running (1 or 2)
    parked              \* the frames of the calls that are not running

vars == << authenticated, table, pc, row, tokens, soda_url, job_url, status,
           prev_status, count, final_status, job_details, fileurls, error,
           requests, sleeps, served, archive_jobs, call, parked >>

\* How many of the served phases were PENDING, QUEUED or EXECUTING, and the
\* phase served last.
NonTerminalServed ==
    Cardinality({i \in 1..Len(served) : served[i] \in {"PENDING", "QUEUED", "EXECUTING"}})

LastServed == served[Len(served)]

\* One call of self._request, as its arguments; step names the call site.
Request(step, method, url, params, data, auth, timeout, cache) ==
    [step |-> step, method |-> method, url |-> url, params |-> params,
     data |-> data, auth |-> auth, timeout |-> timeout, cache |-> cache]

InitLocals ==
    /\ pc = "start"
    /\ row = 1
    /\ tokens = <<>>
    /\ soda_url = Unbound
    /\ job_url = None
    /\ status = None
    /\ prev_status = None
    /\ count = 0
    /\ final_status = None
    /\ job_details = <<>>
    /\ fileurls = <<>>
    /\ error = None
    /\ requests = <<>>
    /\ sleeps = <<>>
    /\ served = <<>>

\* One call on a fresh archive.
SingleCall ==
    /\ archive_jobs = {}
    /\ call = 1
    /\ parked = <<>>

\* CasdaClass(user, password) or CasdaClass(), then stage_data(table).
Init ==
    /\ authenticated \in BOOLEAN
    /\ table \in SeqsUpTo(SampleRows, MaxRows)
    /\ InitLocals
    /\ SingleCall

\* The call ends with an exception.
Raise(e) ==
    /\ pc' = "raised"
    /\ error' = e

\* A variant in which the failure is noted and the same request is sent again.
TransportRetried ==
    /\ pc' = pc
    /\ error' = "TransportFailure"

\* The transport fails: _request raises and the exception leaves stage_data.
TransportFails ==
    /\ Raise("TransportFailure")

\* A variant of the check that lets every client through.
CredentialsNeverMissing == FALSE

\* if not self._authenticated
CredentialsMissing == ~authenticated

\* stage_data, line 162-166: the credentials check and tokens = [].
StageStart ==
    /\ pc = "start"
    /\ IF CredentialsMissing
       THEN Raise("ValueError")
       ELSE /\ pc' = IF table = <<>> THEN "create" ELSE "resolve"
            /\ error' = error
    /\ UNCHANGED << authenticated, table, row, tokens, soda_url, job_url, status,
                    prev_status, count, final_status, job_details, fileurls,
                    requests, sleeps, served >>
    /\ UNCHANGED << archive_jobs, call, parked >>

\* A variant that keeps the endpoint resolved for the first row.
FirstSodaUrl(previous, resolved) == IF previous = Unbound THEN resolved ELSE previous

\* soda_url, id_token = ...: each row's endpoint overwrites the one before.
AssignedSodaUrl(previous, resolved) == resolved

\* stage_data, lines 167-172: one iteration of "for row in table".
ResolveRow ==
    /\ pc = "resolve"
    /\ row <= Len(table)
    /\ requests' = Append(requests,
          Request("datalink", "GET", <<table[row].access_url>>, <<>>, <<>>,
                  "self._auth", "self.TIMEOUT", "default"))
    /\ \/ /\ TransportFails
          /\ UNCHANGED << row, tokens, soda_url >>
       \/ LET parsed == ParseDatalink(table[row].doc, service_name)
          IN  IF parsed.raised # None
              THEN /\ Raise(parsed.raised)
                   /\ UNCHANGED << row, tokens, soda_url >>
              ELSE /\ soda_url' = AssignedSodaUrl(soda_url, parsed.async_url)
                   /\ tokens' = Append(tokens, parsed.id_token)
                   /\ row' = row + 1
                   /\ pc' = IF row = Len(table) THEN "create" ELSE "resolve"
                   /\ error' = error
    /\ UNCHANGED << authenticated, table, job_url, status, prev_status, count,
                    final_status, job_details, fileurls, sleeps, served >>
    /\ UNCHANGED << archive_jobs, call, parked >>

\* A variant that sends each distinct token once.
RECURSIVE IdParamsDistinct(_)
IdParamsDistinct(toks) ==
    IF toks = <<>> THEN <<>>
    ELSE LET init == SubSeq(toks, 1, Len(toks) - 1)
             last == toks[Len(toks)]
         IN  IF \E i \in 1..Len(init) : init[i] = last
             THEN IdParamsDistinct(init)
             ELSE Append(IdParamsDistinct(init), <<"ID", last>>)

\* id_params = list(map(lambda token: ('ID', token), authenticated_id_tokens))
IdParams(toks) == [i \in 1..Len(toks) |-> <<"ID", toks[i]>>]

\* A variant that always posts to the configured endpoint.
AsyncUrlAlwaysDefault(url) == DefaultSodaUrl

\* async_url = soda_url if soda_url else self._get_soda_url()
AsyncUrl(url) == IF url # None /\ url # "" THEN url ELSE DefaultSodaUrl

\* A variant in which soda_url starts as None before the loop.
SodaUrlNeverUnbound(url) == FALSE

\* soda_url=soda_url at line 175 reads a local that no row has assigned.
SodaUrlUnbound(url) == url = Unbound

\* resp.url of the creation request: the archive numbers its jobs.
NewJobUrl == IF archive_jobs = {} THEN "JOB1" ELSE "JOB2"

\* stage_data, line 175, and _create_soda_job.  With an empty table soda_url
\* was never assigned and reading it raises UnboundLocalError.
CreateJob ==
    /\ pc = "create"
    /\ IF SodaUrlUnbound(soda_url)
       THEN /\ Raise("UnboundLocalError")
            /\ UNCHANGED << requests, job_url, archive_jobs >>
       ELSE /\ requests' = Append(requests,
                  Request("create", "POST", <<AsyncUrl(soda_url)>>, IdParams(tokens),
                          <<>>, None, None, "False"))
            /\ \/ /\ TransportFails
                  /\ UNCHANGED << job_url, archive_jobs >>
               \/ /\ \E j \in JobUrls :
                        /\ j = NewJobUrl
                        /\ job_url' = j
                        /\ archive_jobs' = archive_jobs \cup
                              {[location |-> j, params |-> IdParams(tokens)]}
                  /\ pc' = "run"
                  /\ error' = error
    /\ UNCHANGED << authenticated, table, row, tokens, soda_url, status, prev_status,
                    count, final_status, job_details, fileurls, sleeps,
                    served, call, parked >>

\* A variant that posts to the job location itself.
PhaseUrlIsJobLocation(job_location) == <<job_location>>

\* job_location + "/phase", as the path segments after the job location.
PhaseUrl(job_location) == <<job_location, "phase">>

\* _run_job, lines 243-249: the phase=RUN request, prev_status = None, count = 0.
StartJob ==
    /\ pc = "run"
    /\ requests' = Append(requests,
          Request("run", "POST", PhaseUrl(job_url), <<>>, << <<"phase", "RUN">> >>,
                  None, None, "False"))
    /\ \/ TransportFails
       \/ /\ pc' = "poll"
          /\ error' = error
    /\ UNCHANGED << authenticated, table, row, tokens, soda_url, job_url, status,
                    prev_status, count, final_status, job_details, fileurls, sleeps,
                    served >>
    /\ UNCHANGED << archive_jobs, call, parked >>

\* A variant in which a document without uws:phase reads as a phase.
PhaseMissingIsAPhase(ph) == FALSE

\* _read_job_status: find("uws:phase", ns) returns None, whose .text fails.
PhaseMissing(ph) == ph = NoPhase

\* _run_job, lines 250-251 and 259-260: _get_job_details_xml, then
\* _read_job_status, which raises AttributeError on a document without
\* uws:phase (find() returns None).  The archive answers with one of the
\* given phases; the model lets it report at most MaxPolls non-terminal ones.
RunJobPoll(phases) ==
    /\ pc = "poll"
    /\ requests' = Append(requests,
          Request("poll", "GET", <<job_url>>, <<>>, <<>>, None, None, "False"))
    /\ \/ /\ TransportFails
          /\ UNCHANGED << status, served >>
       \/ \E ph \in phases :
            /\ ph \in {"PENDING", "QUEUED", "EXECUTING"} => NonTerminalServed < MaxPolls
            /\ served' = Append(served, ph)
            /\ IF PhaseMissing(ph)
               THEN /\ Raise("AttributeError")
                    /\ UNCHANGED status
               ELSE /\ status' = ph
                    /\ pc' = "loop"
                    /\ error' = error
    /\ UNCHANGED << authenticated, table, row, tokens, soda_url, job_url, prev_status,
                    count, final_status, job_details, fileurls, sleeps >>
    /\ UNCHANGED << archive_jobs, call, parked >>

\* A variant of the loop test that leaves QUEUED out.
StillRunningNotQueued(s) == s = "EXECUTING" \/ s = "PENDING"

\* A variant of the loop test that gives up after the first wait.
StillRunningOnce(s) ==
    /\ s = "EXECUTING" \/ s = "QUEUED" \/ s = "PENDING"
    /\ sleeps = <<>>

\* A variant of the loop test that also waits on a held job.
StillRunningOrHeld(s) == s = "EXECUTING" \/ s = "QUEUED" \/ s = "PENDING" \/ s = "HELD"

\* while status == 'EXECUTING' or status == 'QUEUED' or status == 'PENDING'
StillRunning(s) == s = "EXECUTING" \/ s = "QUEUED" \/ s = "PENDING"

\* A variant that waits only before the first re-poll.
SleptOnce(sl) == IF sl = <<>> THEN Append(sl, poll_interval) ELSE sl

\* time.sleep(poll_interval)
Slept(sl) == Append(sl, poll_interval)

\* _run_job, lines 252-258 and 262: the loop test; then either the body up to
\* the sleep (count += 1, count = 0, prev_status = status), or the return.
RunJobLoop ==
    /\ pc = "loop"
    /\ IF StillRunning(status)
       THEN /\ count' = 0
            /\ prev_status' = status
            /\ sleeps' = Slept(sleeps)
            /\ pc' = "poll"
            /\ UNCHANGED << status, final_status >>
       ELSE /\ final_status' = status
            /\ status' = None
            /\ prev_status' = None
            /\ pc' = "fetch"
            /\ UNCHANGED << count, sleeps >>
    /\ UNCHANGED << authenticated, table, row, tokens, soda_url, job_url, job_details,
                    fileurls, error, requests, served >>
    /\ UNCHANGED << archive_jobs, call, parked >>

\* A variant that lists every decoded location once.
RECURSIVE ExtractFileUrlsDistinct(_)
ExtractFileUrlsDistinct(hrefs) ==
    IF hrefs = <<>> THEN <<>>
    ELSE LET init == SubSeq(hrefs, 1, Len(hrefs) - 1)
             last == hrefs[Len(hrefs)]
         IN  IF \E i \in 1..Len(init) : init[i] = last
             THEN ExtractFileUrlsDistinct(init)
             ELSE Append(ExtractFileUrlsDistinct(init), unquote(last))

\* A variant that appends the href as it stands.
ExtractFileUrlsUndecoded(hrefs) == hrefs

\* fileurls, lines 184-187: unquote(result.get(href)) of every result, in order.
ExtractFileUrls(hrefs) == [i \in 1..Len(hrefs) |-> unquote(hrefs[i])]

\* stage_data, lines 183-189: the job detail document is fetched once more and
\* its uws:results/uws:result elements are read.  find() returns None when
\* uws:results is missing, and None.findall raises AttributeError; unquote of
\* a missing href (None) raises TypeError.
BuildFileUrls(docs) ==
    /\ pc = "fetch"
    /\ requests' = Append(requests,
          Request("details", "GET", <<job_url>>, <<>>, <<>>, None, None, "False"))
    /\ \/ /\ TransportFails
          /\ UNCHANGED << job_details, fileurls >>
       \/ \E d \in docs :
            /\ job_details' = <<d>>
            /\ IF ~d.has_results
               THEN /\ Raise("AttributeError")
                    /\ UNCHANGED fileurls
               ELSE IF \E i \in 1..Len(d.results) : d.results[i] = NoHref
               THEN /\ Raise("TypeError")
                    /\ UNCHANGED fileurls
               ELSE /\ fileurls' = ExtractFileUrls(d.results)
                    /\ pc' = "done"
                    /\ error' = error
    /\ UNCHANGED << authenticated, table, row, tokens, soda_url, job_url, status,
                    prev_status, count, final_status, sleeps, served >>
    /\ UNCHANGED << archive_jobs, call, parked >>

\* One staging call against the sampled archive.
Next ==
    \/ StageStart
    \/ ResolveRow
    \/ CreateJob
    \/ StartJob
    \/ RunJobPoll(Phases \cup {NoPhase})
    \/ RunJobLoop
    \/ BuildFileUrls(SampleJobDocs)

Spec == Init /\ [][Next]_vars

\* Link resolution alone, over the enumerated datalink documents: a table of
\* one row, up to the end of the "for row in table" loop.
InitResolve ==
    /\ authenticated = TRUE
    /\ table \in {<<TableRow("A1", d)>> : d \in DatalinkDocs}
    /\ InitLocals
    /\ SingleCall

NextResolve ==
    \/ StageStart
    \/ ResolveRow

SpecResolve == InitResolve /\ [][NextResolve]_vars

\* One staging call of one file whose job detail document ranges over the
\* enumerated hrefs.
InitExtract ==
    /\ authenticated = TRUE
    /\ table = <<TableRow("A1", LinkDoc("T1", "E1"))>>
    /\ InitLocals
    /\ SingleCall

NextExtract ==
    \/ StageStart
    \/ ResolveRow
    \/ CreateJob
    \/ StartJob
    \/ RunJobPoll(Phases \cup {NoPhase})
    \/ RunJobLoop
    \/ BuildFileUrls(ExtractJobDocs)

SpecExtract == InitExtract /\ [][NextExtract]_vars

\* One file, every archive answer, and a call that keeps running: stage_data
\* runs on one thread from its first statement to its return or exception,
\* so a step that can be taken is taken.
SpecPolling == InitExtract /\ [][Next]_vars /\ WF_vars(Next)

\* Two calls of stage_data on the one client Casda, each on its own thread.
\* The frame of a call is what the source keeps in locals of stage_data,
\* _create_soda_job and _run_job, with the call's own view of what it sent,
\* slept and was served; the client's fields and the archive are shared.
Frame ==
    [table |-> table, pc |-> pc, row |-> row, tokens |-> tokens, soda_url |-> soda_url,
     job_url |-> job_url, status |-> status, prev_status |-> prev_status,
     count |-> count, final_status |-> final_status, job_details |-> job_details,
     fileurls |-> fileurls, error |-> error, requests |-> requests,
     sleeps |-> sleeps, served |-> served]

\* The frame of a call of stage_data(t) that has not run yet.
NewFrame(t) ==
    [table |-> t, pc |-> "start", row |-> 1, tokens |-> <<>>, soda_url |-> Unbound,
     job_url |-> None, status |-> None, prev_status |-> None, count |-> 0,
     final_status |-> None, job_details |-> <<>>, fileurls |-> <<>>, error |-> None,
     requests |-> <<>>, sleeps |-> <<>>, served |-> <<>>]

\* A variant in which the job location is kept on the client, which the
\* calls share, so that a call resumes with the location written last.
JobUrlOnClient(frame) == job_url

\* job_url is a local of stage_data: a call resumes with its own.
ResumedJobUrl(frame) == frame.job_url

\* The thread of the running call is suspended and the other call's resumes.
Switch ==
    /\ parked # <<>>
    /\ parked' = <<Frame>>
    /\ call' = 3 - call
    /\ LET f == parked[1]
       IN  /\ table' = f.table
           /\ pc' = f.pc
           /\ row' = f.row
           /\ tokens' = f.tokens
           /\ soda_url' = f.soda_url
           /\ job_url' = ResumedJobUrl(f)
           /\ status' = f.status
           /\ prev_status' = f.prev_status
           /\ count' = f.count
           /\ final_status' = f.final_status
           /\ job_details' = f.job_details
           /\ fileurls' = f.fileurls
           /\ error' = f.error
           /\ requests' = f.requests
           /\ sleeps' = f.sleeps
           /\ served' = f.served
    /\ UNCHANGED << authenticated, archive_jobs >>

\* The file the archive stages for a token, as the href of its result.
StagedHref(token) ==
    CASE token = "T1" -> HrefA
      [] token = "T3" -> HrefD
      [] OTHER -> HrefC

\* The detail document of the job at a location: one result for each ID
\* parameter the job was created with.
JobManifest(location) ==
    LET job == CHOOSE a \in archive_jobs : a.location = location
    IN  JobDoc([n \in 1..Len(job.params) |-> StagedHref(job.params[n][2])])

\* The batch of each call: different files, resolving at different endpoints.
Batch(c) ==
    IF c = 1 THEN <<TableRow("A1", LinkDoc("T1", "E1"))>>
             ELSE <<TableRow("A3", LinkDoc("T3", "E2"))>>

InitConcurrent ==
    /\ authenticated = TRUE
    /\ table = Batch(1)
    /\ InitLocals
    /\ archive_jobs = {}
    /\ call = 1
    /\ parked = <<NewFrame(Batch(2))>>

NextConcurrent ==
    \/ StageStart
    \/ ResolveRow
    \/ CreateJob
    \/ StartJob
    \/ RunJobPoll({"EXECUTING", "COMPLETED", "ERROR"})
    \/ RunJobLoop
    \/ BuildFileUrls({JobManifest(job_url)})
    \/ Switch

SpecConcurrent == InitConcurrent /\ [][NextConcurrent]_vars

(***************************************************************************)
(* What the properties below read off the state.                           *)
(***************************************************************************)
\* The positions of the requests made at one call site.
RequestsAt(step) == {i \in 1..Len(requests) : requests[i].step = step}

\* _run_job has returned to stage_data.
RunJobReturned == pc \in {"fetch", "done"} \/ RequestsAt("details") # {}

\* C1: on a client constructed without credentials stage_data fails at once
\* with an error, whatever the table, and no request of any kind (datalink
\* GET, job-creation POST, phase POST, poll GET) has been sent.
C1_NoCredentialsNoRequest ==
    ~authenticated =>
        /\ requests = <<>>
        /\ sleeps = <<>>
        /\ pc \in {"start", "raised"}
        /\ pc = "raised" => error = "ValueError"
        /\ tokens = <<>> /\ fileurls = <<>>

C1_Witness ==
    /\ ~authenticated
    /\ Len(table) = 2
    /\ pc = "raised" /\ error = "ValueError"

\* C2: the value _run_job returns is never PENDING, QUEUED or EXECUTING and
\* is the phase of the document fetched last; every other phase read
\* (HELD, SUSPENDED, UNKNOWN, an unrecognised string, ...) ends the loop:
\* the client polls again only after a PENDING, QUEUED or EXECUTING reading.
C2_ReturnsFirstOtherPhase ==
    /\ RunJobReturned =>
          /\ final_status \notin {"PENDING", "QUEUED", "EXECUTING"}
          /\ final_status = LastServed
    /\ (pc = "poll" /\ RequestsAt("poll") # {})
          => LastServed \in {"PENDING", "QUEUED", "EXECUTING"}

C2_Witness ==
    /\ pc = "fetch"
    /\ served = <<"PENDING", "ARCHIVED">>
    /\ final_status = "ARCHIVED"

\* C3: when the archive reports N >= 0 non-terminal phases and then another
\* one, _run_job sleeps exactly N times, poll_interval (20) seconds each
\* time, and makes exactly N + 1 uncached GETs of the job location; with
\* N = 0 that is one GET and no sleep.
C3_SleepsAndPolls ==
    RunJobReturned =>
        /\ Len(sleeps) = NonTerminalServed
        /\ \A i \in 1..Len(sleeps) : sleeps[i] = 20
        /\ Cardinality(RequestsAt("poll")) = NonTerminalServed + 1
        /\ \A i \in RequestsAt("poll") :
              /\ requests[i].method = "GET"
              /\ requests[i].url = <<job_url>>
              /\ requests[i].cache = "False"

C3_Witness ==
    /\ pc = "fetch"
    /\ served = <<"QUEUED", "EXECUTING", "ERROR">>
    /\ Len(sleeps) = 2
    /\ Cardinality(RequestsAt("poll")) = 3

\* C4: _create_soda_job sends one POST whose parameter list has one
\* ('ID', token) pair per input token, in the order of the tokens and with
\* duplicates kept.
C4_OneIdParamPerToken ==
    /\ Cardinality(RequestsAt("create")) <= 1
    /\ pc \in {"run", "poll", "loop", "fetch", "done"} => Cardinality(RequestsAt("create")) = 1
    /\ \A i \in RequestsAt("create") :
          /\ requests[i].method = "POST"
          /\ Len(requests[i].params) = Len(tokens)
          /\ \A k \in 1..Len(tokens) :
                /\ requests[i].params[k][1] = "ID"
                /\ requests[i].params[k][2] = tokens[k]

C4_Witness ==
    /\ RequestsAt("create") # {}
    /\ tokens = <<"T1", "T2", "T1">> \/ tokens = <<"T1", "T1">>

(***************************************************************************)
(* Link resolution, read off the documents themselves.                     *)
(***************************************************************************)
\* The tokens a document's results rows carry for a service.
TokensFor(doc, name) ==
    UNION { { doc[i].rows[k].authenticated_id_token :
                k \in {j \in 1..Len(doc[i].rows) : doc[i].rows[j].service_def = name} } :
            i \in {j \in 1..Len(doc) : doc[j].type = "results"} }

\* The accessURL values of a document's descriptors (meta resources) of a service.
EndpointsFor(doc, name) ==
    UNION { { doc[i].params[k].value :
                k \in {j \in 1..Len(doc[i].params) : doc[i].params[j].name = "accessURL"} } :
            i \in {j \in 1..Len(doc) : doc[j].type = "meta" /\ doc[j].ID = name} }

\* The document has a resource of type "results".
WithResults(doc) == \E i \in 1..Len(doc) : doc[i].type = "results"

\* Row n of the table has been resolved: its token was appended.
Resolved(n) == n \in 1..Len(tokens)

\* The call ended in an exception raised while row n's response was parsed.
ParseFailedAt(n) ==
    /\ pc = "raised"
    /\ error \notin {"ValueError", "TransportFailure"}
    /\ row = n
    /\ Len(requests) = n
    /\ requests[n].step = "datalink"

\* C5: for a document with a results row for the service and a descriptor of
\* the service with an accessURL, resolution returns a token and an endpoint
\* the document carries for that service, never those of another service.
C5_ResolvesServiceValues ==
    \A n \in 1..Len(table) :
        LET doc == table[n].doc IN
        (TokensFor(doc, "cutout_service") # {} /\ EndpointsFor(doc, "cutout_service") # {}) =>
            /\ ~ParseFailedAt(n)
            /\ Resolved(n) => tokens[n] \in TokensFor(doc, "cutout_service")
            /\ (Resolved(n) /\ row = n + 1 /\ pc \in {"resolve", "create"})
                  => soda_url \in EndpointsFor(doc, "cutout_service")

C5_Witness ==
    /\ pc = "create"
    /\ tokens = <<"T1">>
    /\ soda_url = "E1"
    /\ TokensFor(table[1].doc, "async_service") # {}
    /\ EndpointsFor(table[1].doc, "async_service") # {}

\* C6: for a document without a resource of type "results", resolution fails
\* with an error: no value is returned, neither a pair of absent values nor
\* a bare None, so no token is appended and the call ends there.
C6_NoResultsResourceRaises ==
    \A n \in 1..Len(table) :
        ~WithResults(table[n].doc) =>
            /\ ~Resolved(n)
            /\ row <= n
            /\ pc \notin {"create", "run", "poll", "loop", "fetch", "done"}
            /\ (Len(requests) >= n /\ error # "TransportFailure")
                  => (pc = "raised" /\ error = "StopIteration"
                      /\ Len(tokens) = n - 1)

C6_Witness ==
    /\ pc = "raised"
    /\ error = "StopIteration"
    /\ table[1].doc # <<>>
    /\ EndpointsFor(table[1].doc, "cutout_service") # {}

\* C7: for a document with a results resource, a missing row for the service
\* gives an absent token and a missing descriptor or accessURL an absent
\* endpoint, each independently of the other; no error is raised, and the
\* component that is there is returned as found.
C7_UnresolvedIsAbsent ==
    \A n \in 1..Len(table) :
        LET doc == table[n].doc
            last == row = n + 1 /\ pc \in {"resolve", "create"}
        IN  WithResults(doc) =>
            /\ ~ParseFailedAt(n)
            /\ (Resolved(n) /\ TokensFor(doc, "cutout_service") = {}) => tokens[n] = None
            /\ (Resolved(n) /\ TokensFor(doc, "cutout_service") # {})
                  => tokens[n] \in TokensFor(doc, "cutout_service")
            /\ (Resolved(n) /\ last /\ EndpointsFor(doc, "cutout_service") = {})
                  => soda_url = None
            /\ (Resolved(n) /\ last /\ EndpointsFor(doc, "cutout_service") # {})
                  => soda_url \in EndpointsFor(doc, "cutout_service")

C7_Witness ==
    /\ pc = "create"
    /\ tokens = <<None>>
    /\ soda_url = "E1"
    /\ WithResults(table[1].doc)

(***************************************************************************)
(* Percent-decoding, stated from left to right: "%" followed by two        *)
(* hexadecimal digits stands for the character with that code, every       *)
(* other character for itself.                                             *)
(***************************************************************************)
HexDigitCodes == << <<48>>, <<49>>, <<50>>, <<51>>, <<52>>, <<53>>, <<54>>, <<55>>,
                    <<56>>, <<57>>, <<65, 97>>, <<66, 98>>, <<67, 99>>, <<68, 100>>,
                    <<69, 101>>, <<70, 102>> >>

DigitValues(c) ==
    {v \in 0..15 : \E k \in 1..Len(HexDigitCodes[v+1]) : HexDigitCodes[v+1][k] = c}

EscapeAt(h, i) ==
    /\ h[i] = 37
    /\ i + 2 <= Len(h)
    /\ DigitValues(h[i+1]) # {}
    /\ DigitValues(h[i+2]) # {}

EscapedCode(h, i) ==
    16 * (CHOOSE v \in DigitValues(h[i+1]) : TRUE) + (CHOOSE v \in DigitValues(h[i+2]) : TRUE)

\* Every escape of h stands for an ASCII character.
AsciiEscapes(h) == \A i \in 1..Len(h) : EscapeAt(h, i) => EscapedCode(h, i) < 128

RECURSIVE PercentDecoded(_)
PercentDecoded(h) ==
    IF h = <<>> THEN <<>>
    ELSE IF EscapeAt(h, 1)
         THEN <<EscapedCode(h, 1)>> \o PercentDecoded(SubSeq(h, 4, Len(h)))
         ELSE <<h[1]>> \o PercentDecoded(Tail(h))

\* The job detail document of line 183 has arrived.
DetailsFetched == job_details # <<>>

\* C8: the returned list holds, for every uws:result of uws:results, the
\* percent-decoded xlink:href, in document order and as many as there are
\* result elements (nothing dropped, nothing merged); the hrefs a%20b, c,
\* d%2Fe give "a b", "c", "d/e".
C8_FileUrlsAreDecodedHrefs ==
    /\ pc = "done" =>
          LET hrefs == job_details[1].results IN
          /\ Len(fileurls) = Len(hrefs)
          /\ \A i \in 1..Len(hrefs) :
                AsciiEscapes(hrefs[i]) => fileurls[i] = PercentDecoded(hrefs[i])
          /\ hrefs = << <<97, 37, 50, 48, 98>>, <<99>>, <<100, 37, 50, 70, 101>> >>
                => fileurls = << <<97, 32, 98>>, <<99>>, <<100, 47, 101>> >>
    /\ (/\ DetailsFetched
        /\ job_details[1].has_results
        /\ \A i \in 1..Len(job_details[1].results) : job_details[1].results[i] # NoHref)
          => pc = "done"

C8_Witness ==
    /\ pc = "done"
    /\ job_details[1].results = <<HrefA, HrefC, HrefD>>
    /\ Len(fileurls) = 3

\* C9 (as claimed): when the job detail document fetched after polling has
\* no uws:results, extraction gives an empty list and raises nothing.
C9_AbsentResultsGiveEmptyList ==
    (DetailsFetched /\ ~job_details[1].has_results) =>
        /\ pc = "done"
        /\ fileurls = <<>>
        /\ error = None

\* The rows all resolve, each to one token, and to one common endpoint e.
ResolveTo(e) ==
    \A n \in 1..Len(table) :
        /\ EndpointsFor(table[n].doc, "cutout_service") = {e}
        /\ Cardinality(TokensFor(table[n].doc, "cutout_service")) = 1

\* C10: end to end, for an authenticated client and k files resolving to one
\* endpoint with tokens T1..Tk, a job that is reported non-terminal n times
\* and then COMPLETED, and a manifest of m results: the creation request
\* goes to that endpoint with ID=Ti for every i, there are exactly n sleeps,
\* and exactly m URLs are returned.
C10_EndToEnd ==
    \A e \in {"E1", "E2"} :
        (authenticated /\ table # <<>> /\ ResolveTo(e) /\ final_status = "COMPLETED") =>
            /\ pc = "done" =>
                  /\ \E c \in RequestsAt("create") :
                        /\ requests[c].url = <<e>>
                        /\ Len(requests[c].params) = Len(table)
                        /\ \A n \in 1..Len(table) :
                              /\ requests[c].params[n][1] = "ID"
                              /\ requests[c].params[n][2]
                                    \in TokensFor(table[n].doc, "cutout_service")
                  /\ Len(sleeps) = NonTerminalServed
                  /\ Len(fileurls) = Len(job_details[1].results)
            /\ (/\ DetailsFetched
                /\ job_details[1].has_results
                /\ \A i \in 1..Len(job_details[1].results) :
                      job_details[1].results[i] # NoHref)
                  => (pc = "done" /\ error = None)

C10_Witness ==
    /\ pc = "done"
    /\ final_status = "COMPLETED"
    /\ tokens = <<"T1", "T2">>
    /\ soda_url = "E1"
    /\ served = <<"PENDING", "EXECUTING", "COMPLETED">>
    /\ Len(sleeps) = 2
    /\ Len(job_details[1].results) = 2
    /\ Len(fileurls) = 2

\* The requests sent from job creation onward.
JobRequests ==
    { i \in 1..Len(requests) : requests[i].step \in {"create", "run", "poll", "details"} }

\* C11 (as claimed): every request sent from job creation onward (the
\* creation POST, the phase=RUN POST, every poll GET and the final job-detail
\* GET) is sent with the caller's credentials, as the datalink GETs are.
C11_JobRequestsCarryCredentials ==
    \A i \in JobRequests : requests[i].auth = "self._auth"

\* The phases of a job that did not succeed and is not running.
FailurePhases == {"ERROR", "ABORTED", "HELD", "SUSPENDED"}

\* _run_job has raised: the call ended in an exception before any return
\* from _run_job (the only later request is the detail fetch).
RunJobRaised == pc = "raised" /\ RequestsAt("run") # {} /\ ~RunJobReturned

\* C12: when the job reaches ERROR, ABORTED, HELD or SUSPENDED, _run_job
\* does not raise and does not poll again: it returns that phase as its
\* normal result, exactly as it does for COMPLETED.
C12_FailurePhasesReturned ==
    \A ph \in FailurePhases \cup {"COMPLETED"} :
        (served # <<>> /\ LastServed = ph) =>
            /\ ~RunJobRaised
            /\ pc # "poll"
            /\ pc # "loop" =>
                  /\ RunJobReturned
                  /\ final_status = ph
                  /\ pc = "fetch" => error = None
                  /\ Cardinality(RequestsAt("poll")) = Len(served)

C12_Witness ==
    /\ pc = "fetch"
    /\ served = <<"EXECUTING", "ABORTED">>
    /\ final_status = "ABORTED"
    /\ error = None

\* C13: when the transport fails on a request (a datalink GET, the creation
\* POST, the phase=RUN POST, a poll GET or the detail GET) the failure leaves
\* stage_data as it is: the step that sent the request ends the call with
\* the transport's exception and changes nothing else, and afterwards no
\* step is taken at all: no retry of the failed request, no further request,
\* no sleep, no result.
C13_TransportFailureEndsCall ==
    [][ /\ error # "TransportFailure"
        /\ error' = "TransportFailure" =>
              /\ pc' = "raised"
              /\ Len(requests') = Len(requests) + 1
              /\ SubSeq(requests', 1, Len(requests)) = requests
              /\ UNCHANGED << row, tokens, soda_url, job_url, status, final_status,
                              job_details, fileurls, sleeps, served >>
      ]_vars

C13_Witness ==
    /\ pc = "raised"
    /\ error = "TransportFailure"
    /\ requests[Len(requests)].step = "poll"
    /\ served = <<"QUEUED">>
    /\ Len(sleeps) = 1
    /\ Cardinality(RequestsAt("poll")) = 2

\* The place of a call site in the order of the protocol.
StepRank(step) ==
    CASE step = "datalink" -> 1
      [] step = "create"   -> 2
      [] step = "run"      -> 3
      [] step = "poll"     -> 4
      [] step = "details"  -> 5

\* C14: in every run that reaches job creation the requests are ordered:
\* first the datalink GETs, one per row of the table in table order, then
\* exactly one creation POST, then exactly one POST of phase=RUN to
\* <job location>/phase, then the poll GETs of the job location.  No poll
\* GET precedes the RUN POST and the job is never created a second time.
C14_RequestOrder ==
    /\ \A i \in 1..(Len(requests) - 1) :
          StepRank(requests[i].step) <= StepRank(requests[i + 1].step)
    /\ Cardinality(RequestsAt("create")) <= 1
    /\ Cardinality(RequestsAt("run")) <= 1
    /\ \A c \in RequestsAt("create") :
          /\ requests[c].method = "POST"
          /\ c = Len(table) + 1
          /\ \A n \in 1..Len(table) :
                /\ requests[n].step = "datalink"
                /\ requests[n].method = "GET"
                /\ requests[n].url = <<table[n].access_url>>
    /\ \A r \in RequestsAt("run") :
          /\ RequestsAt("create") # {}
          /\ requests[r].method = "POST"
          /\ requests[r].url = <<job_url, "phase">>
          /\ requests[r].data = << <<"phase", "RUN">> >>
    /\ \A p \in RequestsAt("poll") :
          /\ RequestsAt("run") # {}
          /\ requests[p].method = "GET"
          /\ requests[p].url = <<job_url>>

C14_Witness ==
    /\ Len(table) = 2
    /\ Len(requests) = 6
    /\ requests[1].step = "datalink" /\ requests[2].step = "datalink"
    /\ requests[3].step = "create"
    /\ requests[4].step = "run"
    /\ requests[5].step = "poll" /\ requests[6].step = "poll"
    /\ pc = "loop"

\* C15: the polling loop has no iteration bound.  As long as the transport
\* does not fail, a reading of PENDING, QUEUED or EXECUTING is followed,
\* however many readings came before it, by one more sleep and one more
\* poll and never by a return; and once the phase=RUN request is out,
\* _run_job eventually returns (the archive having reported some other
\* phase) or ends in an exception.
C15_PollsUntilOtherPhase ==
    /\ (pc = "poll") ~> (RunJobReturned \/ pc = "raised")
    /\ [][ (pc = "loop" /\ status \in {"PENDING", "QUEUED", "EXECUTING"}) =>
              /\ pc' = "poll"
              /\ Len(sleeps') = Len(sleeps) + 1
              /\ final_status' = None
         ]_vars
    /\ [](RunJobReturned => Len(sleeps) = NonTerminalServed)

C15_Witness ==
    /\ pc = "fetch"
    /\ NonTerminalServed = MaxPolls
    /\ Len(sleeps) = MaxPolls
    /\ Cardinality(RequestsAt("poll")) = MaxPolls + 1
    /\ final_status = "COMPLETED"

C17_AbsentTokenNotSent ==
    \A c \in RequestsAt("create") :
        \A n \in 1..Len(requests[c].params) : requests[c].params[n][2] # None

\* C18 (as claimed): the job's detail document goes to result extraction
\* only on terminal success: when _run_job has returned a phase other than
\* COMPLETED, no result manifest is fetched and none is parsed into a list
\* of URLs.
C18_ExtractionOnlyOnSuccess ==
    (RunJobReturned /\ final_status # "COMPLETED") =>
        /\ RequestsAt("details") = {}
        /\ ~DetailsFetched
        /\ pc # "done"
        /\ fileurls = <<>>

\* C19: when a fetched job detail document has no uws:phase element,
\* _run_job ends in an error: it returns no phase, it does not poll again
\* and nothing after it runs.  That differs from a job that reports the
\* phase ERROR, which _run_job returns as a normal value.
C19_MissingPhaseRaises ==
    /\ (served # <<>> /\ LastServed = NoPhase) =>
          /\ pc = "raised"
          /\ error = "AttributeError"
          /\ ~RunJobReturned
          /\ final_status = None
          /\ requests[Len(requests)].step = "poll"
          /\ Cardinality(RequestsAt("poll")) = Len(served)
          /\ fileurls = <<>>
    /\ (served # <<>> /\ LastServed = "ERROR" /\ pc # "loop") =>
          /\ RunJobReturned
          /\ final_status = "ERROR"
          /\ pc = "fetch" => error = None

C19_Witness ==
    /\ served = <<"EXECUTING", NoPhase>>
    /\ pc = "raised"
    /\ error = "AttributeError"
    /\ Len(sleeps) = 1

\* The URL list a call on table t returns when it runs alone and its job
\* completes: the decoded location of the file staged for each row's token.
AloneResult(t) ==
    [n \in 1..Len(t) |->
        unquote(StagedHref(CHOOSE k \in TokensFor(t[n].doc, "cutout_service") : TRUE))]

\* C20: two staging calls for different batches, running concurrently on
\* the one client in any interleaving, do not interfere.  Each call's
\* creation request carries the tokens of its own batch and no others and
\* goes to its own batch's endpoint; its phase POST, poll GETs and detail GET
\* go to the job location its own creation request returned; and a call
\* that returns, returns the URL list of its own job, the list it returns
\* when run alone.
C20_ConcurrentCallsDoNotInterfere ==
    /\ table = Batch(call)
    /\ \A c \in RequestsAt("create") :
          /\ Len(requests[c].params) = Len(table)
          /\ \A n \in 1..Len(table) :
                requests[c].params[n][2] \in TokensFor(table[n].doc, "cutout_service")
          /\ requests[c].url[1] \in EndpointsFor(table[Len(table)].doc, "cutout_service")
    /\ job_url # None =>
          \E a \in archive_jobs :
              /\ a.location = job_url
              /\ \E c \in RequestsAt("create") : a.params = requests[c].params
    /\ \A r \in RequestsAt("run") \cup RequestsAt("poll") \cup RequestsAt("details") :
          /\ job_url # None
          /\ requests[r].url[1] = job_url
    /\ pc = "done" => fileurls = AloneResult(Batch(call))
    /\ \A i \in 1..Len(parked) :
          parked[i].pc = "done" => parked[i].fileurls = AloneResult(Batch(3 - call))

C20_Witness ==
    /\ call = 1
    /\ pc = "done"
    /\ job_url = "JOB2"
    /\ served = <<"EXECUTING", "COMPLETED">>
    /\ fileurls = <<unquote(HrefA)>>
    /\ parked[1].pc = "done"
    /\ parked[1].job_url = "JOB1"
    /\ parked[1].served = <<"EXECUTING", "EXECUTING", "COMPLETED">>
    /\ parked[1].fileurls = <<unquote(HrefD)>>

\* Every row of the table resolves an endpoint and a token for the service.
AllRowsResolve ==
    \A n \in 1..Len(table) :
        /\ Cardinality(EndpointsFor(table[n].doc, "cutout_service")) = 1
        /\ Cardinality(TokensFor(table[n].doc, "cutout_service")) = 1
        /\ None \notin EndpointsFor(table[n].doc, "cutout_service")

\* Two rows of the table resolve to different endpoints.
EndpointsDiffer ==
    \E m, n \in 1..Len(table) :
        EndpointsFor(table[m].doc, "cutout_service")
            # EndpointsFor(table[n].doc, "cutout_service")

\* C21: when the rows of the table resolve to different endpoints,
\* stage_data submits one job, holding the tokens of all the rows, to the
\* endpoint resolved for the last row; the creation request is never sent
\* to an endpoint resolved for an earlier row that differs from it.
C21_JobGoesToLastEndpoint ==
    (AllRowsResolve /\ EndpointsDiffer) =>
        /\ Cardinality(RequestsAt("create")) <= 1
        /\ pc \in {"run", "poll", "loop", "fetch", "done"} => RequestsAt("create") # {}
        /\ \A c \in RequestsAt("create") :
              /\ requests[c].url = <<soda_url>>
              /\ EndpointsFor(table[Len(table)].doc, "cutout_service") = {soda_url}
              /\ Len(requests[c].params) = Len(table)
              /\ \A n \in 1..Len(table) :
                    /\ TokensFor(table[n].doc, "cutout_service")
                          = {requests[c].params[n][2]}
                    /\ EndpointsFor(table[n].doc, "cutout_service") # {soda_url}
                          => requests[c].url[1]
                                \notin EndpointsFor(table[n].doc, "cutout_service")

C21_Witness ==
    /\ table = <<TableRow("A1", LinkDoc("T1", "E1")), TableRow("A3", LinkDoc("T3", "E2"))>>
    /\ pc = "run"
    /\ \E c \in RequestsAt("create") :
          /\ requests[c].url = <<"E2">>
          /\ requests[c].params = << <<"ID", "T1">>, <<"ID", "T3">> >>

\* C22: for an authenticated client and an empty table, stage_data sends no
\* link-resolution request (and no other request), the token list is
\* empty, and the call ends in an error, never in a returned URL list.
C22_EmptyTableIsAnError ==
    (authenticated /\ table = <<>>) =>
        /\ requests = <<>>
        /\ tokens = <<>>
        /\ archive_jobs = {}
        /\ pc \in {"start", "create", "raised"}
        /\ pc = "raised" => error = "UnboundLocalError"
        /\ pc # "raised" => error = None
        /\ fileurls = <<>>

C22_Witness ==
    /\ authenticated
    /\ table = <<>>
    /\ pc = "raised"
    /\ error = "UnboundLocalError"
    /\ requests = <<>>
    /\ tokens = <<>>

=============================================================================
